---- MODULE Spec2Model ----
(***************************************************************************)
(* Brothel Hacker: platform adapters, dispatch facade, approval workflow   *)
(* and the cron publisher, modelled from                                   *)
(* src/.github/workflows/brothel_hacker_platform_adapters_multi_network_api.js *)
(*                                                                         *)
(* Three independent parts of the program share no state:                  *)
(*   - the adapter registry and postToPlatform (stateless),                *)
(*   - the approvals Map with submit / decision,                           *)
(*   - the schedules array with /api/post, /api/schedule/bulk and the      *)
(*     cron tick.                                                          *)
(* Each part has its own next-state relation; Spec is their composition.   *)
(***************************************************************************)
EXTENDS Integers, Sequences, FiniteSets, TLC

VARIABLES
  approvals,   \* the approvals Map (line 301): id -> record
  resp,        \* the last HTTP response of an approval endpoint
  schedules,   \* the schedules array (line 303)
  ticks,       \* one entry per cron callback invocation: where it is suspended
  clock,       \* Date.now()
  pub          \* the last call of POST /api/adapters/:platform/post and its result

vars == <<approvals, resp, schedules, ticks, clock, pub>>

(***************************************************************************)
(* Bounds of the model.                                                    *)
(***************************************************************************)
MaxItems == 2       \* items of one approval submit
MaxJobs == 2        \* length of the schedules array
MaxPlatforms == 2   \* platforms of one job
MaxTime == 1        \* clock values 0..MaxTime
MaxTicks == 2       \* cron callback invocations that may be in flight at once

(***************************************************************************)
(* helpers (lines 20-24)                                                   *)
(***************************************************************************)
\* The result of an async call: resolved (ok) or rejected with an Error that
\* has a message and, when thrown by err, a status.  status 0 = no status
\* property (a TypeError, an axios error).  net counts the outbound http.post
\* calls started; adapter names the adapter function entered ("none" if none).
Resolved(adapter, n) ==
  [ok |-> TRUE, msg |-> "", status |-> 0, net |-> n, adapter |-> adapter]
Rejected(adapter, m, st, n) ==
  [ok |-> FALSE, msg |-> m, status |-> st, net |-> n, adapter |-> adapter]

\* const err = (m, status=400) => { ... throw e }      (line 20)
DefaultErrStatus == 400
err(adapter, m, st) == Rejected(adapter, m, st, 0)

\* reqd = (o,k) => { if(!o?.[k]) err(`missing_${k}`) ... }   (line 21)
\* An object is modelled by the set of its keys that hold a truthy value.
has(o, k) == k \in o
missing(adapter, k) == err(adapter, "missing_" \o k, DefaultErrStatus)

\* http.post through the axios instance with timeout 12000 (line 24): the call
\* resolves or rejects (bad status, network error, timeout).  net[c] tells
\* whether the c-th outbound call of one adapter invocation resolves.
MaxCalls == 2
NetResults == [1..MaxCalls -> BOOLEAN]
HttpFailure == "Request failed"

\* An adapter body of the common shape: a list of required keys checked in
\* order, each a throw before any call, then n sequential awaited http.post.
RECURSIVE firstMissing(_, _, _)
firstMissing(checks, input, k) ==
  IF k > Len(checks) THEN 0
  ELSE IF has(input[checks[k].part], checks[k].key) THEN firstMissing(checks, input, k + 1)
  ELSE k

RECURSIVE calls(_, _, _, _)
calls(adapter, n, net, c) ==
  IF c > n THEN Resolved(adapter, n)
  ELSE IF net[c] THEN calls(adapter, n, net, c + 1)
  ELSE Rejected(adapter, HttpFailure, 0, c)

networkedUnchecked(adapter, checks, n, input, net) == calls(adapter, n, net, 1)
networked(adapter, checks, n, input, net) ==
  LET k == firstMissing(checks, input, 1) IN
  IF k = 0 THEN calls(adapter, n, net, 1)
  ELSE IF checks[k].msg = "" THEN missing(adapter, checks[k].key)
  ELSE err(adapter, checks[k].msg, DefaultErrStatus)

tok(k) == [part |-> "tokens", key |-> k, msg |-> ""]
acc(k) == [part |-> "account", key |-> k, msg |-> ""]
fld(k) == [part |-> "fields", key |-> k, msg |-> ""]

NotImplemented == 501
stub(adapter, m) == err(adapter, m, NotImplemented)

(***************************************************************************)
(* The adapters (lines 29-181).  input = [tokens, account, fields]: the    *)
(* truthy keys of input.tokens, of input.account and of input itself.      *)
(***************************************************************************)
instagramPost(input, net) ==
  networked("instagram",
    << tok("IG_TOKEN"), acc("ig_user_id"),
       [part |-> "fields", key |-> "mediaUrl", msg |-> "instagram_requires_mediaUrl"] >>,
    2, input, net)
facebookPost(input, net) ==
  networked("facebook", << tok("FB_PAGE_TOKEN"), acc("page_id") >>, 1, input, net)
twitterPost(input, net) ==
  networked("twitter", << tok("X_BEARER") >>, 1, input, net)
tiktokPost(input, net) ==
  networked("tiktok", << tok("TT_ACCESS_TOKEN"), acc("advertiser_id"), fld("mediaUrl") >>,
            1, input, net)
linkedinPost(input, net) ==
  networked("linkedin", << tok("LI_TOKEN"), acc("author_urn") >>, 1, input, net)
snapchatPostNetworked(input, net) ==
  networked("snapchat", << >>, 1, input, net)
snapchatPost(input, net) ==
  stub("snapchat", "snapchat_posting_requires_marketing_api_and_creatives")
pinterestPost(input, net) ==
  networked("pinterest", << tok("PIN_TOKEN"), acc("board_id"), fld("mediaUrl") >>,
            1, input, net)
redditPost(input, net) ==
  networked("reddit", << tok("REDDIT_TOKEN"), acc("subreddit") >>, 1, input, net)
tumblrPost(input, net) == stub("tumblr", "tumblr_v2_posting_require_oauth1_flow")
youtubePost(input, net) == stub("youtube", "use_resumable_upload_to_youtube_data_api_v3")
whatsappSend(input, net) ==
  networked("whatsapp", << tok("WAPP_TOKEN"), acc("phone_number_id"), fld("to") >>,
            1, input, net)
discordPost(input, net) ==
  networked("discord", << tok("DISCORD_WEBHOOK") >>, 1, input, net)
twitchPost(input, net) ==
  stub("twitch", "twitch_posting_not_supported; consider chat bot or channel points integration")
clubhousePost(input, net) == stub("clubhouse", "no_public_api")
vimeoPost(input, net) == stub("vimeo", "use_vimeo_uploads_api_oauth2")
mediumPost(input, net) ==
  networked("medium", << tok("MEDIUM_TOKEN"), acc("user_id") >>, 1, input, net)
quoraPost(input, net) == stub("quora", "no_public_content_api")
onlyfansPost(input, net) ==
  stub("onlyfans", "no_public_api_use_official_partner_or_manual_export")
pornhubPost(input, net) == stub("pornhub", "partner_api_required")
telegramPost(input, net) ==
  networked("telegram", << tok("TELEGRAM_BOT_TOKEN"), acc("chat_id") >>, 1, input, net)
wechatPost(input, net) ==
  stub("wechat", "requires_wechat_official_account_access_token_and_message_send_api")
linePost(input, net) ==
  networked("line", << tok("LINE_CHANNEL_TOKEN"), fld("to") >>, 1, input, net)
viberPost(input, net) ==
  networked("viber", << tok("VIBER_TOKEN") >>, 1, input, net)

\* export const adapters = { ... }  (lines 183-207): the own keys of the object
adapterNames ==
  { "instagram", "facebook", "twitter", "tiktok", "linkedin", "snapchat",
    "pinterest", "reddit", "tumblr", "youtube", "whatsapp", "discord", "twitch",
    "clubhouse", "vimeo", "medium", "quora", "onlyfans", "pornhub", "telegram",
    "wechat", "line", "viber" }

\* The function registered under an own key of adapters, applied.
adapters(name, input, net) ==
  CASE name = "instagram" -> instagramPost(input, net)
    [] name = "facebook"  -> facebookPost(input, net)
    [] name = "twitter"   -> twitterPost(input, net)
    [] name = "tiktok"    -> tiktokPost(input, net)
    [] name = "linkedin"  -> linkedinPost(input, net)
    [] name = "snapchat"  -> snapchatPost(input, net)
    [] name = "pinterest" -> pinterestPost(input, net)
    [] name = "reddit"    -> redditPost(input, net)
    [] name = "tumblr"    -> tumblrPost(input, net)
    [] name = "youtube"   -> youtubePost(input, net)
    [] name = "whatsapp"  -> whatsappSend(input, net)
    [] name = "discord"   -> discordPost(input, net)
    [] name = "twitch"    -> twitchPost(input, net)
    [] name = "clubhouse" -> clubhousePost(input, net)
    [] name = "vimeo"     -> vimeoPost(input, net)
    [] name = "medium"    -> mediumPost(input, net)
    [] name = "quora"     -> quoraPost(input, net)
    [] name = "onlyfans"  -> onlyfansPost(input, net)
    [] name = "pornhub"   -> pornhubPost(input, net)
    [] name = "telegram"  -> telegramPost(input, net)
    [] name = "wechat"    -> wechatPost(input, net)
    [] name = "line"      -> linePost(input, net)
    [] name = "viber"     -> viberPost(input, net)

\* export const capabilities = Object.freeze({ ... })  (lines 209-233): the
\* post flag of each record.
capabilitiesPostTrue ==
  { "instagram", "facebook", "twitter", "tiktok", "linkedin", "pinterest",
    "reddit", "whatsapp", "discord", "medium", "telegram", "line", "viber" }
capabilitiesPostFalse ==
  { "snapchat", "tumblr", "youtube", "twitch", "clubhouse", "vimeo", "quora",
    "onlyfans", "pornhub", "wechat" }
capabilityNames == capabilitiesPostTrue \cup capabilitiesPostFalse
capabilities(name) == [post |-> name \in capabilitiesPostTrue]

(***************************************************************************)
(* postToPlatform (lines 235-239).  adapters is a plain object literal, so *)
(* adapters[platform] is a property lookup that falls through to           *)
(* Object.prototype for a key the literal does not define.                 *)
(***************************************************************************)
\* What adapters[platform] evaluates to.
\*   "own"       : the adapter function registered under that key
\*   "undefined" : no such property on the object or its prototype
\*   "Object"    : Object.prototype.constructor, the Object function
\*   "toString"  : Object.prototype.toString
\*   "thisfn"    : a prototype method that throws a TypeError when called
\*                 with this = undefined (valueOf, hasOwnProperty, ...)
\*   "protoobj"  : Object.prototype itself (the __proto__ accessor): truthy,
\*                 not callable
objectPrototypeThrowing ==
  { "valueOf", "hasOwnProperty", "isPrototypeOf", "propertyIsEnumerable",
    "toLocaleString", "__defineGetter__", "__defineSetter__",
    "__lookupGetter__", "__lookupSetter__" }
lookup(platform) ==
  CASE platform \in adapterNames -> "own"
    [] platform = "constructor" -> "Object"
    [] platform = "toString" -> "toString"
    [] platform \in objectPrototypeThrowing -> "thisfn"
    [] platform = "__proto__" -> "protoobj"
    [] OTHER -> "undefined"

\* if(!fn) err('unsupported_platform',404)       (line 237)
NotFound == 404

postToPlatform(platform, input, net) ==
  LET fn == lookup(platform) IN
  CASE fn = "undefined" -> err("none", "unsupported_platform", NotFound)
    [] fn = "own"       -> adapters(platform, input, net)
    \* Object(input) returns its argument; toString.call(undefined) returns
    \* "[object Undefined]": the promise resolves, no adapter ran.
    [] fn = "Object"    -> Resolved("none", 0)
    [] fn = "toString"  -> Resolved("none", 0)
    [] fn = "thisfn"    -> Rejected("none", "Cannot convert undefined or null to object", 0, 0)
    [] fn = "protoobj"  -> Rejected("none", "fn is not a function", 0, 0)

\* String.prototype.toLowerCase on the identifiers the model uses.
toLowerCase(s) ==
  CASE s = "Telegram" -> "telegram"
    [] s = "toString" -> "tostring"
    [] s = "valueOf" -> "valueof"
    [] s = "hasOwnProperty" -> "hasownproperty"
    [] OTHER -> s

(***************************************************************************)
(* POST /api/adapters/:platform/post (lines 464-467)                       *)
(***************************************************************************)
\* Platform identifiers a caller may put in the URL or in job.platforms.
PlatformIds ==
  adapterNames \cup
  { "myspace", "", "Telegram", "constructor", "toString", "valueOf",
    "hasOwnProperty", "__proto__" }

\* Request bodies: every required key of a part present, or none.
allTokens ==
  { "IG_TOKEN", "FB_PAGE_TOKEN", "X_BEARER", "TT_ACCESS_TOKEN", "LI_TOKEN",
    "PIN_TOKEN", "REDDIT_TOKEN", "WAPP_TOKEN", "DISCORD_WEBHOOK", "MEDIUM_TOKEN",
    "TELEGRAM_BOT_TOKEN", "LINE_CHANNEL_TOKEN", "VIBER_TOKEN" }
allAccount ==
  { "ig_user_id", "page_id", "advertiser_id", "author_urn", "board_id",
    "subreddit", "phone_number_id", "user_id", "chat_id" }
Inputs ==
  [ tokens : { {}, allTokens }, account : { {}, allAccount },
    fields : SUBSET { "mediaUrl", "to" } ]

NoPub ==
  [platform |-> "", input |-> [tokens |-> {}, account |-> {}, fields |-> {}],
   called |-> FALSE, result |-> Resolved("none", 0), code |-> 0]

\* res.json({ok:true}) is 200; bad(res, e.message, e.status||500)  (line 466)
InternalError == 500
httpCode(r) == IF r.ok THEN 200 ELSE IF r.status = 0 THEN InternalError ELSE r.status

PublishNow(platform, input, net) ==
  LET r == postToPlatform(platform, input, net) IN
  /\ pub' = [platform |-> platform, input |-> input, called |-> TRUE,
             result |-> r, code |-> httpCode(r)]
  /\ UNCHANGED <<approvals, resp, schedules, ticks, clock>>

DispatchNext ==
  \E platform \in PlatformIds, input \in Inputs, net \in NetResults :
    PublishNow(platform, input, net)

(***************************************************************************)
(* Approvals (lines 301, 311-333)                                          *)
(***************************************************************************)
\* 'appr_'+Math.random().toString(36).slice(2): a token drawn at random; the
\* draw does not look at the Map.
ApprIds == { "appr_a", "appr_b" }

\* ApprovalItem (line 311): platform string, kind enum, text min(1).
ItemKinds == { "post", "story", "ad", "reel" }
ApprovalItem(it) == it.kind \in ItemKinds /\ it.text /= ""
GoodItem == [platform |-> "x", kind |-> "post", text |-> "hi"]
ItemSamples == { GoodItem, [platform |-> "x", kind |-> "post", text |-> ""] }
RECURSIVE SeqsUpTo(_, _)
SeqsUpTo(S, n) ==
  IF n = 0 THEN { << >> }
  ELSE LET shorter == SeqsUpTo(S, n - 1) IN
       shorter \cup { Append(q, x) : q \in { r \in shorter : Len(r) = n - 1 }, x \in S }
ItemLists == SeqsUpTo(ItemSamples, MaxItems)
\* policy: z.string().default('generic')
PolicySamples == { "generic" }

\* z.object({ items: z.array(ApprovalItem), policy }).safeParse(req.body)  (line 313)
submitBodyOk(items) == \A k \in 1..Len(items) : ApprovalItem(items[k])

\* A slot of the decisions array: a hole of the sparse array, or the decision
\* stored there (note and ts are payload no condition reads).
Hole == "<hole>"
Decisions == { "APPROVED", "REJECTED" }

arrayPush(a, index, v) == Append(a, v)
\* r.decisions[index] = {...}  (line 330): a JavaScript array store.  index is
\* 0-based; storing past the end grows length to index+1 and leaves holes.
arrayStore(a, index, v) ==
  [k \in 1..(IF index + 1 > Len(a) THEN index + 1 ELSE Len(a)) |->
     IF k = index + 1 THEN v ELSE IF k <= Len(a) THEN a[k] ELSE Hole]

\* r.decisions.includes(undefined)  (line 331): includes visits 0..length-1
\* and reads a hole as undefined.
includesUndefined(a) == \E k \in 1..Len(a) : a[k] = Hole

\* r.status = r.decisions.includes(undefined) ? 'PENDING' : 'DECIDED'  (line 331)
statusOf(r) == IF includesUndefined(r.decisions) THEN "PENDING" ELSE "DECIDED"

\* ok(res, data) / bad(res, error, code=400)  (lines 305-306)
BadRequest == 400
ok == [code |-> 200, error |-> ""]
bad(e, code) == [code |-> code, error |-> e]

\* The response of an approval endpoint together with the request it answers.
\* op, id, index and decision are the request (for submit, id is the id drawn
\* and returned); was is history: what r.decisions[index] held before the
\* store of line 330 (Hole when nothing was stored there).
NoRequest == [op |-> "none", id |-> "", index |-> 0, decision |-> "", was |-> Hole]
submitRequest(id) == [NoRequest EXCEPT !.op = "submit", !.id = id]
decideRequest(id, index, decision, was) ==
  [op |-> "decide", id |-> id, index |-> index, decision |-> decision, was |-> was]
answer(r, req) ==
  [code |-> r.code, error |-> r.error, op |-> req.op, id |-> req.id,
   index |-> req.index, decision |-> req.decision, was |-> req.was]
NoResp == answer([code |-> 0, error |-> ""], NoRequest)

\* approvals.set(id, record)
mapSet(m, id, r) == [x \in DOMAIN m \cup {id} |-> IF x = id THEN r ELSE m[x]]

\* POST /api/approval/submit  (lines 312-319)
Submit(id, items, policy) ==
  /\ IF ~submitBodyOk(items)
     THEN /\ resp' = answer(bad("validation", BadRequest), [NoRequest EXCEPT !.op = "submit"])
          /\ UNCHANGED approvals
     ELSE LET record == [status |-> "PENDING", policy |-> policy, items |-> items,
                         decisions |-> << >>] IN
          /\ approvals' = mapSet(approvals, id, record)
          /\ resp' = answer(ok, submitRequest(id))
  /\ UNCHANGED <<schedules, ticks, clock, pub>>

\* z.object({ index: z.number().int().nonnegative(), decision: z.enum([...]) })  (line 328)
decisionBodyOk(index, decision) == index >= 0 /\ decision \in Decisions
\* Bodies sampled: every index up to one past the longest item list with
\* every decision, and two bodies the schema rejects.
DecideSamples ==
  ((0 .. MaxItems) \X Decisions) \cup { <<-1, "APPROVED">>, <<0, "MAYBE">> }

\* a[index] read from a JavaScript array: undefined past the end or in a hole.
arrayRead(a, index) == IF index + 1 <= Len(a) THEN a[index + 1] ELSE Hole

decideRecord(r, index, decision) ==
  LET r1 == [r EXCEPT !.decisions = arrayStore(@, index, decision)] IN
  [r1 EXCEPT !.status = statusOf(r1)]

\* POST /api/approval/:id/decision  (lines 325-333)
Decide(id, index, decision) ==
  /\ IF id \notin DOMAIN approvals
     THEN /\ resp' = answer(bad("not_found", NotFound), decideRequest(id, 0, "", Hole))
          /\ UNCHANGED approvals
     ELSE IF ~decisionBodyOk(index, decision)
     THEN /\ resp' = answer(bad("validation", BadRequest), decideRequest(id, 0, "", Hole))
          /\ UNCHANGED approvals
     ELSE LET r == decideRecord(approvals[id], index, decision) IN
          /\ approvals' = [approvals EXCEPT ![id] = r]
          /\ resp' = answer(ok, decideRequest(id, index, decision,
                                              arrayRead(approvals[id].decisions, index)))
  /\ UNCHANGED <<schedules, ticks, clock, pub>>

ApprovalNext ==
  \/ \E id \in ApprIds, items \in ItemLists, policy \in PolicySamples :
       Submit(id, items, policy)
  \/ \E id \in ApprIds, body \in DecideSamples : Decide(id, body[1], body[2])

(***************************************************************************)
(* Posting queue (lines 303, 374-388)                                      *)
(***************************************************************************)
\* whenISO is any string, or absent (z.string().optional()).  The classes of
\* strings the code tells apart: the empty string, a string Date cannot parse
\* and a timestamp (t = its getTime()).
NoWhen == [kind |-> "absent", t |-> 0]
EmptyWhen == [kind |-> "empty", t |-> 0]
GarbageWhen == [kind |-> "garbage", t |-> 0]
IsoWhen(t) == [kind |-> "iso", t |-> t]
WhenStrings == { EmptyWhen, GarbageWhen } \cup { IsoWhen(t) : t \in 0..MaxTime }
WhenSamples == { NoWhen } \cup WhenStrings

\* Platforms put in jobs: one of each class postToPlatform tells apart after
\* toLowerCase.
JobPlatforms == { "Telegram", "snapchat", "constructor" }
\* and two lists in which a name that is no key of adapters comes first.
UnregisteredFirst == { << "myspace", "Telegram" >>, << "__proto__", "Telegram" >> }
PlatformLists == SeqsUpTo(JobPlatforms, MaxPlatforms) \cup UnregisteredFirst

\* mediaUrls: z.array(z.string().url()).optional(); absent reads as empty.
\* The bodies sampled carry no mediaUrls or one the schema rejects: the
\* scheduler passes empty tokens, so no adapter reads mediaUrl (see jobInput).
isUrl(u) == u \in { "https://cdn/1.png", "https://cdn/2.png" }
MediaSamples == { << >>, << "1.png" >> }
postBodyOk(mediaUrls) == \A k \in 1..Len(mediaUrls) : isUrl(mediaUrls[k])

\* A job as pushed: { id, ...body.data, status:'QUEUED' }.  error and postedAt
\* are unset ("" and -1).  The last three fields are history, not program
\* state: trail lists every value assigned to status, calls the platforms a
\* dispatch call was started for, results how each settled call ended and
\* how many outbound http.post calls it started.
newJob(platforms, whenISO, mediaUrls) ==
  [platforms |-> platforms, whenISO |-> whenISO, mediaUrls |-> mediaUrls,
   status |-> "QUEUED", error |-> "", postedAt |-> -1,
   trail |-> << "QUEUED" >>, calls |-> << >>, results |-> << >>]

\* POST /api/post  (lines 374-380)
Enqueue(platforms, whenISO, mediaUrls) ==
  /\ Len(schedules) < MaxJobs
  /\ IF postBodyOk(mediaUrls)
     THEN schedules' = Append(schedules, newJob(platforms, whenISO, mediaUrls))
     ELSE UNCHANGED schedules
  /\ UNCHANGED <<approvals, resp, ticks, clock, pub>>

\* POST /api/schedule/bulk  (lines 383-388): whenISO is required, mediaUrls is
\* not part of the schema.
BulkItems == [platforms : PlatformLists, whenISO : WhenStrings]
RECURSIVE pushAll(_, _, _)
pushAll(s, items, k) ==
  IF k > Len(items) THEN s
  ELSE pushAll(Append(s, newJob(items[k].platforms, items[k].whenISO, << >>)), items, k + 1)
EnqueueBulk(items) ==
  /\ Len(schedules) + Len(items) <= MaxJobs
  /\ schedules' = pushAll(schedules, items, 1)
  /\ UNCHANGED <<approvals, resp, ticks, clock, pub>>

(***************************************************************************)
(* Cron publisher (lines 391-408)                                          *)
(*                                                                         *)
(* The callback is an async function: it runs without interruption up to   *)
(* an await and is suspended at every await postToPlatform(..).  node-cron *)
(* starts an invocation every minute whether or not the previous one has   *)
(* returned.  The model lets any other handler or invocation run while an  *)
(* invocation is suspended.  That is every interleaving the event loop can *)
(* produce when the awaited call waits for the network; a call that        *)
(* settles without I/O (a throw in reqd or err) is resumed by Node before  *)
(* any other handler runs, so for such calls the model allows more         *)
(* interleavings than the runtime does.                                    *)
(***************************************************************************)
\* new Date(job.whenISO).getTime(): NaN for a string Date cannot parse.
getTime(w) == IF w.kind = "iso" THEN [nan |-> FALSE, ms |-> w.t] ELSE [nan |-> TRUE, ms |-> 0]
\* a <= now on numbers: false when a is NaN.
lte(a, now) == ~a.nan /\ a.ms <= now
\* !job.whenISO: undefined and "" are falsy.
falsy(w) == w.kind \in { "absent", "empty" }

isDueStrict(job, now) == falsy(job.whenISO) \/ (~getTime(job.whenISO).nan /\ getTime(job.whenISO).ms < now)
\* !job.whenISO || new Date(job.whenISO).getTime() <= now     (line 395)
isDue(job, now) == falsy(job.whenISO) \/ lte(getTime(job.whenISO), now)

skipUnlessFinal(job) == job.status \in { "POSTED", "FAILED" }
skipUnlessFailed(job) == job.status \in { "POSTING", "POSTED" }
\* if(job.status!=='QUEUED') continue                        (line 394)
skip(job) == job.status /= "QUEUED"

jobInputWithTokens(job) ==
  [tokens |-> allTokens, account |-> allAccount,
   fields |-> IF Len(job.mediaUrls) > 0 THEN { "mediaUrl" } ELSE {}]
\* { text: job.text, mediaUrl: job.mediaUrls?.[0], tokens: {}, account: {} }  (line 400)
jobInput(job) ==
  [tokens |-> {}, account |-> {},
   fields |-> IF Len(job.mediaUrls) > 0 THEN { "mediaUrl" } ELSE {}]

setStatus(job, st) == [job EXCEPT !.status = st, !.trail = Append(@, st)]
markPostingLate(job) == job
\* job.status='POSTING'                                       (line 396)
markPosting(job) == setStatus(job, "POSTING")
\* The call of postToPlatform for the p-th platform begins    (line 400)
startCall(job, p) == [job EXCEPT !.calls = Append(@, toLowerCase(job.platforms[p]))]
\* The awaited call settles with result r.
settle(job, r) ==
  [job EXCEPT !.results = Append(@, [ok |-> r.ok, msg |-> r.msg, net |-> r.net])]
markPostedUnstamped(job, clk) == setStatus(job, "POSTED")
\* job.status='POSTED'; job.postedAt=new Date().toISOString() (line 402)
markPosted(job, clk) == [setStatus(job, "POSTED") EXCEPT !.postedAt = clk]
markFailedAsPosted(job, msg) == markPosted(job, 0)
markFailedGeneric(job, msg) == [setStatus(job, "FAILED") EXCEPT !.error = "failed"]
\* job.status='FAILED'; job.error = e.message                 (line 404)
markFailed(job, msg) == [setStatus(job, "FAILED") EXCEPT !.error = msg]

\* A callback invocation: idle (not running), or suspended in the await of the
\* call for platform p of job i, with its const now.  took and len are
\* history: the number of jobs this invocation has moved to POSTING, and
\* schedules.length when the invocation began.
Idle == [pc |-> "idle", now |-> 0, i |-> 0, p |-> 0, took |-> 0, len |-> 0]
began(t, n) == IF t.pc = "idle" THEN t ELSE [t EXCEPT !.len = n]

\* for(const job of schedules) from the i-th job on (1-based), up to the first
\* await or the end of the array.  The array iterator reads schedules.length
\* on every step, so s is the array as it is when the callback runs.
RECURSIVE loopFrom(_, _, _, _, _)
loopFrom(s, i, now, clk, took) ==
  IF i > Len(s) THEN [s |-> s, t |-> Idle]
  ELSE IF skip(s[i]) \/ ~isDue(s[i], now) THEN loopFrom(s, i + 1, now, clk, took)
  ELSE LET s1 == [s EXCEPT ![i] = markPosting(@)] IN
       IF Len(s[i].platforms) = 0
       THEN loopFrom([s1 EXCEPT ![i] = markPosted(@, clk)], i + 1, now, clk, took + 1)
       ELSE [s |-> [s1 EXCEPT ![i] = startCall(@, 1)],
             t |-> [pc |-> "await", now |-> now, i |-> i, p |-> 1, took |-> took + 1,
                    len |-> 0]]

abortTick(s, i, now, clk, took) == [s |-> s, t |-> Idle]
\* } catch(e){ ... } swallows the error and the for loop over schedules goes
\* on with the next job                                       (lines 403-407)
afterCatch(s, i, now, clk, took) == loopFrom(s, i + 1, now, clk, took)

\* const now = Date.now(); then the loop                       (lines 391-393)
TickStart(t) ==
  /\ ticks[t].pc = "idle"
  \* invocations carry no identity: the new one takes the lowest free slot
  /\ \A u \in 1..(t - 1) : ticks[u].pc /= "idle"
  /\ LET r == loopFrom(schedules, 1, clock, clock, 0) IN
     /\ schedules' = r.s
     /\ ticks' = [ticks EXCEPT ![t] = began(r.t, Len(schedules))]
  /\ UNCHANGED <<approvals, resp, clock, pub>>

\* The awaited postToPlatform settles and the callback resumes: the next
\* platform's call, or POSTED, or the catch; then on through the array up to
\* the next await                                             (lines 398-407)
TickResume(t, net) ==
  /\ ticks[t].pc = "await"
  /\ LET i == ticks[t].i
         p == ticks[t].p
         now == ticks[t].now
         took == ticks[t].took
         r == postToPlatform(toLowerCase(schedules[i].platforms[p]),
                             jobInput(schedules[i]), net)
         job == settle(schedules[i], r)
         res == IF ~r.ok
                THEN afterCatch([schedules EXCEPT ![i] = markFailed(job, r.msg)],
                                i, now, clock, took)
                ELSE IF p < Len(job.platforms)
                THEN [s |-> [schedules EXCEPT ![i] = startCall(job, p + 1)],
                      t |-> [ticks[t] EXCEPT !.p = p + 1]]
                ELSE loopFrom([schedules EXCEPT ![i] = markPosted(job, clock)],
                              i + 1, now, clock, took)
     IN /\ schedules' = res.s
        /\ ticks' = [ticks EXCEPT ![t] = began(res.t, ticks[t].len)]
  /\ UNCHANGED <<approvals, resp, clock, pub>>

\* Time passes.
Advance ==
  /\ clock < MaxTime
  /\ clock' = clock + 1
  /\ UNCHANGED <<approvals, resp, schedules, ticks, pub>>

SchedulerNext ==
  \/ \E platforms \in PlatformLists, whenISO \in WhenSamples, mediaUrls \in MediaSamples :
       Enqueue(platforms, whenISO, mediaUrls)
  \/ \E n \in 0..(MaxJobs - Len(schedules)) :
       \E items \in [1..n -> BulkItems] : EnqueueBulk(items)
  \/ \E t \in 1..MaxTicks : TickStart(t)
  \/ \E t \in 1..MaxTicks, net \in NetResults : TickResume(t, net)
  \/ Advance

(***************************************************************************)
(* Specifications                                                          *)
(***************************************************************************)
Init ==
  /\ approvals = << >>
  /\ resp = NoResp
  /\ schedules = << >>
  /\ ticks = [t \in 1..MaxTicks |-> Idle]
  /\ clock = 0
  /\ pub = NoPub

Next == DispatchNext \/ ApprovalNext \/ SchedulerNext

Spec == Init /\ [][Next]_vars
DispatchSpec == Init /\ [][DispatchNext]_vars
ApprovalSpec == Init /\ [][ApprovalNext]_vars
SchedulerSpec == Init /\ [][SchedulerNext]_vars

\* The scheduler under the assumptions of a live system: node-cron keeps
\* starting invocations, every awaited call settles (the axios instance has a
\* 12 s timeout, line 24) and time advances.
SchedulerLiveSpec ==
  /\ SchedulerSpec
  /\ WF_vars(\E t \in 1..MaxTicks : TickStart(t))
  /\ WF_vars(\E t \in 1..MaxTicks, net \in NetResults : TickResume(t, net))
  /\ WF_vars(Advance)

(***************************************************************************)
(* Claims                                                                  *)
(***************************************************************************)
allDecided(r) ==
  \A k \in 1..Len(r.items) : k <= Len(r.decisions) /\ r.decisions[k] /= Hole

\* C1: in every reachable state an approval record (with at least one item)
\* has status DECIDED if and only if every index 0..items.length-1 has a
\* recorded decision; with only N-1 of N indices decided it is PENDING.
C1_DecidedIffAllDecided ==
  \A id \in DOMAIN approvals :
    Len(approvals[id].items) > 0 =>
      (approvals[id].status = "DECIDED" <=> allDecided(approvals[id]))

\* C6: decide with index >= items.length leaves the record unchanged, so no
\* reachable record (with at least one item) holds a decision at an index
\* >= items.length.
C6_NoDecisionOutOfRange ==
  \A id \in DOMAIN approvals :
    Len(approvals[id].items) > 0 =>
      Len(approvals[id].decisions) <= Len(approvals[id].items)

\* C9: for every platform identifier that is not a registered adapter name,
\* postToPlatform fails with unsupported_platform and status 404, enters no
\* adapter function and makes no network call.
C9_UnknownPlatformIs404 ==
  (pub.called /\ pub.platform \notin adapterNames) =>
    /\ ~pub.result.ok
    /\ pub.result.msg = "unsupported_platform"
    /\ pub.result.status = 404
    /\ pub.result.net = 0
    /\ pub.result.adapter = "none"

\* C10: every platform whose capability record has post=false fails, for any
\* input, with a not-supported error of status 501 and without a network
\* call; and the registered adapters are exactly the platforms that have a
\* capability record.
C10_PostFalseIsNotSupported ==
  /\ adapterNames = capabilityNames
  /\ (pub.called /\ pub.platform \in capabilityNames
        /\ ~capabilities(pub.platform).post) =>
       /\ ~pub.result.ok
       /\ pub.result.status = 501
       /\ pub.code = 501
       /\ pub.result.net = 0
\* A post=false adapter was invoked with every token, account key and field
\* present.
C10_Witness ==
  /\ pub.called
  /\ pub.platform = "snapchat"
  /\ pub.input = [tokens |-> allTokens, account |-> allAccount,
                  fields |-> { "mediaUrl", "to" }]
  /\ pub.result.status = 501

\* Due as C7 states it: whenISO absent, or a timestamp <= now.
dueAsClaimed(w, now) == w.kind = "absent" \/ (w.kind = "iso" /\ w.t <= now)
\* Due as amended: whenISO absent or the empty string, or a timestamp <= now.
dueAmended(w, now) == w.kind \in { "absent", "empty" } \/ (w.kind = "iso" /\ w.t <= now)

count(q, x) == Cardinality({ k \in 1..Len(q) : q[k] = x })

\* C2: with overlapping ticks a job is moved out of QUEUED by one tick only:
\* its fan-out loop is entered at most once, no two invocations are suspended
\* in a call for the same job, and no platform of it is dispatched twice.
C2_NoDoublePublish ==
  /\ \A j \in 1..Len(schedules) :
       /\ count(schedules[j].trail, "POSTING") <= 1
       /\ Len(schedules[j].calls) <= Len(schedules[j].platforms)
  /\ \A t, u \in 1..MaxTicks :
       (t /= u /\ ticks[t].pc = "await" /\ ticks[u].pc = "await")
         => ticks[t].i /= ticks[u].i
\* Two invocations overlap: the second started while the first was suspended
\* in a call for a job that was due for the second too, passed that job and
\* is itself suspended on a later one.
C2_Witness ==
  /\ ticks[1].pc = "await"
  /\ ticks[2].pc = "await"
  /\ ticks[2].i > ticks[1].i
  /\ schedules[ticks[1].i].status = "POSTING"
  /\ dueAmended(schedules[ticks[1].i].whenISO, ticks[2].now)

\* C3: a job starts QUEUED and its status only moves QUEUED -> POSTING,
\* POSTING -> POSTED, POSTING -> FAILED; POSTED and FAILED are never left.
C3_StatusEdges ==
  \A j \in 1..Len(schedules) :
    /\ schedules[j].trail \in
         { << "QUEUED" >>, << "QUEUED", "POSTING" >>,
           << "QUEUED", "POSTING", "POSTED" >>, << "QUEUED", "POSTING", "FAILED" >> }
    /\ schedules[j].status = schedules[j].trail[Len(schedules[j].trail)]
\* An invocation that began after a job was POSTED has passed that job.
C3_Witness ==
  \E t \in 1..MaxTicks, j \in 1..Len(schedules) :
    /\ ticks[t].pc = "await"
    /\ j < ticks[t].i
    /\ schedules[j].status = "POSTED"
    /\ schedules[j].postedAt < ticks[t].now

\* The dispatch call the tick makes for platform p of job succeeds.
wouldSucceed(job, p) ==
  \A net \in NetResults :
    postToPlatform(toLowerCase(job.platforms[p]), jobInput(job), net).ok

\* C4: when a job is marked FAILED, the dispatch call of every platform of
\* job.platforms whose call would succeed has been attempted: a platform B
\* that follows a failing platform A is not skipped.
C4_EveryPlatformAttempted ==
  \A j \in 1..Len(schedules) :
    schedules[j].status = "FAILED" =>
      \A p \in 1..Len(schedules[j].platforms) :
        wouldSucceed(schedules[j], p) => p <= Len(schedules[j].calls)

failedCalls(job) == { p \in 1..Len(job.results) : ~job.results[p].ok }
least(S) == CHOOSE x \in S : \A y \in S : x <= y

\* C5: if a platform call of a job failed, the job is FAILED and error is the
\* message of the first failing call in platform order; a job is FAILED only
\* if a platform call of it failed.
C5_FirstFailureWins ==
  \A j \in 1..Len(schedules) :
    LET job == schedules[j]
        F == failedCalls(job)
    IN /\ F /= {} =>
            /\ job.status = "FAILED"
            /\ job.error = job.results[least(F)].msg
            /\ job.calls[least(F)] = toLowerCase(job.platforms[least(F)])
       /\ job.status = "FAILED" => F /= {}
       /\ job.status = "POSTED" => job.error = ""
\* A job whose two platforms both fail is FAILED with the first one's message.
C5_Witness ==
  \E j \in 1..Len(schedules) :
    /\ schedules[j].platforms = << "snapchat", "Telegram" >>
    /\ schedules[j].status = "FAILED"
    /\ schedules[j].error = "snapchat_posting_requires_marketing_api_and_creatives"

\* A tick takes a job out of QUEUED exactly when it is due(w, now), and makes
\* no dispatch call for a job it leaves QUEUED.
dueBy(amended, w, now) == IF amended THEN dueAmended(w, now) ELSE dueAsClaimed(w, now)
dueExactly(amended) ==
  /\ \A t \in 1..MaxTicks :
       ticks[t].pc = "await" =>
         \* the job it took was due at its now
         /\ dueBy(amended, schedules[ticks[t].i].whenISO, ticks[t].now)
         \* a job it passed and left QUEUED was not
         /\ \A j \in 1..(ticks[t].i - 1) :
              schedules[j].status = "QUEUED"
                => ~dueBy(amended, schedules[j].whenISO, ticks[t].now)
  /\ \A j \in 1..Len(schedules) :
       /\ schedules[j].status /= "QUEUED" => dueBy(amended, schedules[j].whenISO, clock)
       /\ schedules[j].status = "QUEUED" => schedules[j].calls = << >>

\* C7 as stated: a tick takes a QUEUED job out of QUEUED exactly when whenISO
\* is absent or whenISO <= the tick's now; a job that is not due stays QUEUED
\* and no dispatch call is made for it.
C7_DueAsClaimed == dueExactly(FALSE)
\* C7 amended: a tick takes a QUEUED job out of QUEUED exactly when whenISO is
\* absent or the empty string, or is a timestamp <= the tick's now; any other
\* job stays QUEUED and no dispatch call is made for it.
C7_DueAmended == dueExactly(TRUE)
\* An invocation took a job whose timestamp is not after its now and left a job
\* QUEUED whose timestamp is.
C7_Witness ==
  \E t \in 1..MaxTicks :
    /\ ticks[t].pc = "await"
    /\ schedules[ticks[t].i].whenISO.kind = "iso"
    /\ \E j \in 1..(ticks[t].i - 1) :
         /\ schedules[j].status = "QUEUED"
         /\ schedules[j].whenISO.kind = "iso"
         /\ schedules[j].whenISO.t > ticks[t].now

\* C8: a failed platform call does not stop the tick: when an invocation
\* returns, every job in the array that is due for it has been taken out of
\* QUEUED and, unless another invocation holds it, driven to POSTED or FAILED.
C8_FailureDoesNotStopTick ==
  [][\A t \in 1..MaxTicks :
       (ticks[t].pc = "await" /\ ticks'[t].pc = "idle") =>
         \A j \in 1..Len(schedules') :
           dueAmended(schedules'[j].whenISO, ticks[t].now) =>
             \/ schedules'[j].status \in { "POSTED", "FAILED" }
             \/ \E u \in 1..MaxTicks :
                  u /= t /\ ticks'[u].pc = "await" /\ ticks'[u].i = j]_vars
\* One invocation took two jobs: the first FAILED, and it went on to the second.
C8_Witness ==
  \E t \in 1..MaxTicks :
    /\ ticks[t].pc = "await"
    /\ ticks[t].took = 2
    /\ ticks[t].i = 2
    /\ schedules[1].status = "FAILED"

\* C11: a decide call on an index that already holds a decision replaces that
\* decision with the new one and leaves items, policy, the length of decisions
\* and the decision at every other index as they were; a decide call that
\* repeats the decision the index already holds leaves the whole record,
\* status included, as the first call left it.
C11_RedecideReplaces ==
  [][(resp'.op = "decide" /\ resp'.code = 200 /\ resp'.was \in Decisions) =>
       LET old == approvals[resp'.id]
           new == approvals'[resp'.id]
           k == resp'.index + 1
       IN /\ new.items = old.items
          /\ new.policy = old.policy
          /\ Len(new.decisions) = Len(old.decisions)
          /\ new.decisions[k] = resp'.decision
          /\ \A k2 \in 1..Len(old.decisions) :
               k2 /= k => new.decisions[k2] = old.decisions[k2]
          /\ resp'.was = resp'.decision => new = old]_vars
\* Index 0 of a two-item record with both indices decided was re-decided with
\* the other decision.
C11_Witness ==
  /\ resp.op = "decide"
  /\ resp.code = 200
  /\ resp.index = 0
  /\ resp.was \in Decisions
  /\ resp.was /= resp.decision
  /\ Len(approvals[resp.id].items) = 2
  /\ Len(approvals[resp.id].decisions) = 2
  /\ approvals[resp.id].decisions[1] = resp.decision
  /\ approvals[resp.id].decisions[2] \in Decisions

\* C12: submit creates a record only for a non-empty list of items that all
\* have non-empty text, so every record in the store has at least one item
\* and no item with empty text.
C12_NoEmptyRecord ==
  \A id \in DOMAIN approvals :
    /\ Len(approvals[id].items) > 0
    /\ \A k \in 1..Len(approvals[id].items) : approvals[id].items[k].text /= ""

\* The keys each adapter that posts over the network requires, by the part of
\* the input they are read from.
keys(t, a, f) == [tokens |-> t, account |-> a, fields |-> f]
requiredKeys(name) ==
  CASE name = "instagram" -> keys({"IG_TOKEN"}, {"ig_user_id"}, {"mediaUrl"})
    [] name = "facebook"  -> keys({"FB_PAGE_TOKEN"}, {"page_id"}, {})
    [] name = "twitter"   -> keys({"X_BEARER"}, {}, {})
    [] name = "tiktok"    -> keys({"TT_ACCESS_TOKEN"}, {"advertiser_id"}, {"mediaUrl"})
    [] name = "linkedin"  -> keys({"LI_TOKEN"}, {"author_urn"}, {})
    [] name = "pinterest" -> keys({"PIN_TOKEN"}, {"board_id"}, {"mediaUrl"})
    [] name = "reddit"    -> keys({"REDDIT_TOKEN"}, {"subreddit"}, {})
    [] name = "whatsapp"  -> keys({"WAPP_TOKEN"}, {"phone_number_id"}, {"to"})
    [] name = "discord"   -> keys({"DISCORD_WEBHOOK"}, {}, {})
    [] name = "medium"    -> keys({"MEDIUM_TOKEN"}, {"user_id"}, {})
    [] name = "telegram"  -> keys({"TELEGRAM_BOT_TOKEN"}, {"chat_id"}, {})
    [] name = "line"      -> keys({"LINE_CHANNEL_TOKEN"}, {}, {"to"})
    [] name = "viber"     -> keys({"VIBER_TOKEN"}, {}, {})
    [] OTHER -> keys({}, {}, {})
missingKeys(name, input) ==
  (requiredKeys(name).tokens \ input.tokens)
    \cup (requiredKeys(name).account \ input.account)
    \cup (requiredKeys(name).fields \ input.fields)
\* The error messages a call with missing keys may fail with: missing_<key>
\* for a missing key; in the amended reading instagram reports a missing
\* mediaUrl as instagram_requires_mediaUrl.
missingMessages(amended, name, input) ==
  { IF amended /\ name = "instagram" /\ k = "mediaUrl"
    THEN "instagram_requires_mediaUrl" ELSE "missing_" \o k :
    k \in missingKeys(name, input) }
missingKeyFails(amended) ==
  (pub.called /\ pub.platform \in capabilitiesPostTrue) =>
    /\ missingKeys(pub.platform, pub.input) /= {} =>
         /\ ~pub.result.ok
         /\ pub.result.status = 400
         /\ pub.result.msg \in missingMessages(amended, pub.platform, pub.input)
         /\ pub.result.net = 0
    /\ pub.result.net > 0 => missingKeys(pub.platform, pub.input) = {}

\* C13 as stated: an adapter that posts over the network, called with a
\* required token, account or input key missing, fails with missing_<key>
\* and status 400 before any outbound call; an outbound call is made only
\* when every required key is present.
C13_MissingKeyAsClaimed == missingKeyFails(FALSE)
\* C13 amended: as stated, except that instagram reports a missing mediaUrl
\* with the message instagram_requires_mediaUrl (status 400, no outbound
\* call).
C13_MissingKeyAmended == missingKeyFails(TRUE)
\* telegram was called with its token present and its account key missing.
C13_Witness ==
  /\ pub.called
  /\ pub.platform = "telegram"
  /\ pub.input.tokens = allTokens
  /\ pub.input.account = {}
  /\ pub.result.msg = "missing_chat_id"
  /\ pub.result.net = 0

\* C14: a record in the store stays there with the items and policy it was
\* created with, its decisions change only in a decide call on its id, and a
\* submit that creates a record does so under an id not yet in the store.
C14_RecordsKept ==
  [][/\ \A id \in DOMAIN approvals :
          /\ id \in DOMAIN approvals'
          /\ approvals'[id].items = approvals[id].items
          /\ approvals'[id].policy = approvals[id].policy
          /\ approvals'[id].decisions /= approvals[id].decisions
               => (resp'.op = "decide" /\ resp'.id = id)
     /\ (resp'.op = "submit" /\ resp'.code = 200 /\ approvals' /= approvals)
          => resp'.id \notin DOMAIN approvals]_vars

\* C15: a job is POSTED only when a dispatch call was made for every platform
\* of job.platforms, in the declared order, and every call succeeded;
\* postedAt is set exactly on the jobs that are POSTED, and a POSTED job has
\* no error.
C15_PostedAfterAllSucceeded ==
  \A j \in 1..Len(schedules) :
    LET job == schedules[j] IN
    /\ job.status = "POSTED" =>
         /\ job.calls = [p \in 1..Len(job.platforms) |-> toLowerCase(job.platforms[p])]
         /\ Len(job.results) = Len(job.platforms)
         /\ \A p \in 1..Len(job.results) : job.results[p].ok
         /\ job.error = ""
    /\ job.postedAt /= -1 <=> job.status = "POSTED"
\* A job with two platforms is POSTED after both calls, at a time later than 0.
C15_Witness ==
  \E j \in 1..Len(schedules) :
    /\ schedules[j].status = "POSTED"
    /\ Len(schedules[j].platforms) = 2
    /\ Len(schedules[j].results) = 2
    /\ schedules[j].postedAt = 1

\* C16: POSTING is visible before any platform call begins.  After every
\* step, a job an invocation is suspended on is POSTING and a job that is
\* still QUEUED has had no call started; and the step that starts the first
\* call of a job is the step that found it QUEUED and made it POSTING, so no
\* suspension lies between the check and the assignment.
C16_PostingBeforeCalls ==
  [][/\ \A t \in 1..MaxTicks :
          ticks'[t].pc = "await" => schedules'[ticks'[t].i].status = "POSTING"
     /\ \A j \in 1..Len(schedules') :
          /\ schedules'[j].status = "QUEUED" => schedules'[j].calls = << >>
          /\ (j <= Len(schedules) /\ schedules[j].calls = << >>
                /\ schedules'[j].calls /= << >>)
               => /\ schedules[j].status = "QUEUED"
                  /\ schedules'[j].trail[2] = "POSTING"]_vars
\* An invocation is suspended in the second call of a job while another
\* invocation, started meanwhile, is suspended on a later job.
C16_Witness ==
  \E t, u \in 1..MaxTicks :
    /\ ticks[t].pc = "await"
    /\ ticks[t].p = 2
    /\ schedules[ticks[t].i].status = "POSTING"
    /\ ticks[u].pc = "await"
    /\ ticks[u].i > ticks[t].i

\* C17: with invocations that keep starting, calls that settle and time that
\* advances, every job in the queue, whatever its whenISO, eventually is
\* POSTED or FAILED.
C17_EveryJobFinishes ==
  \A j \in 1..MaxJobs :
    [](Len(schedules) >= j =>
         <>(Len(schedules) >= j /\ schedules[j].status \in { "POSTED", "FAILED" }))

\* A job names a registered platform (job.platforms is lower-cased by the tick).
hasRegistered(job) ==
  \E p \in 1..Len(job.platforms) : toLowerCase(job.platforms[p]) \in adapterNames
\* The missing_<key> messages and the messages of the adapters that are not
\* supported (status 501).
missingKeyMessages ==
  { "missing_" \o k : k \in allTokens \cup allAccount \cup { "mediaUrl", "to" } }
notSupportedMessages ==
  { postToPlatform(n, [tokens |-> {}, account |-> {}, fields |-> {}],
                   [c \in 1..MaxCalls |-> TRUE]).msg : n \in capabilitiesPostFalse }
\* The messages of a call whose platform is no key of adapters.
unregisteredMessages == { "unsupported_platform", "fn is not a function" }
neverPosted(amended) ==
  \A j \in 1..Len(schedules) :
    LET job == schedules[j]
        last == Len(job.results)
    IN /\ \A p \in 1..Len(job.results) : job.results[p].net = 0
       /\ hasRegistered(job) =>
            /\ job.status /= "POSTED"
            /\ job.status = "FAILED" =>
                 IF amended /\ job.calls[last] \notin adapterNames
                 THEN job.error \in unregisteredMessages
                 ELSE job.error \in missingKeyMessages \cup notSupportedMessages

\* C18 as stated: a scheduled job that names a registered platform is never
\* POSTED; when it has ended it is FAILED with a missing_<key> or a
\* not-supported message; no call made for a scheduled job starts a network
\* call.
C18_NeverPostedAsClaimed == neverPosted(FALSE)
\* C18 amended: as stated, but the message is that of the first call that
\* failed: missing_<key> or not-supported when that call was for a registered
\* platform, unsupported_platform or a TypeError message when it was for a
\* name earlier in the list that is no key of adapters.
C18_NeverPostedAmended == neverPosted(TRUE)
\* A job whose first call succeeded and whose second, for a registered
\* platform, failed on the missing token.
C18_Witness ==
  \E j \in 1..Len(schedules) :
    /\ schedules[j].platforms = << "constructor", "Telegram" >>
    /\ schedules[j].status = "FAILED"
    /\ schedules[j].error = "missing_TELEGRAM_BOT_TOKEN"
    /\ schedules[j].results[1].ok

C20_DecidedStays ==
  [][(resp'.op = "decide" /\ resp'.code = 200
        /\ Len(approvals[resp'.id].items) > 0
        /\ approvals[resp'.id].status = "DECIDED")
       => approvals'[resp'.id].status = "DECIDED"]_vars

\* C21: a job with an empty platforms list that is due for an invocation
\* evaluating it is POSTED by that invocation, with postedAt set, and no
\* dispatch call is ever made for it.  After every step such a job is QUEUED
\* or POSTED with no call started, and it is POSTED if an invocation for which
\* it was due has passed it: one that is suspended on a later job, one that
\* returns in this step, or one that ran from start to end in this step.
C21_EmptyPlatformsPosted ==
  [][/\ \A j \in 1..Len(schedules') :
          schedules'[j].platforms = << >> =>
            /\ schedules'[j].calls = << >>
            /\ schedules'[j].results = << >>
            /\ schedules'[j].status \in { "QUEUED", "POSTED" }
            /\ schedules'[j].status = "POSTED" <=> schedules'[j].postedAt /= -1
            /\ \A t \in 1..MaxTicks :
                 (ticks'[t].pc = "await" /\ j < ticks'[t].i
                    /\ dueAmended(schedules'[j].whenISO, ticks'[t].now))
                   => schedules'[j].status = "POSTED"
            /\ \A t \in 1..MaxTicks :
                 (ticks[t].pc = "await" /\ ticks'[t].pc = "idle"
                    /\ dueAmended(schedules'[j].whenISO, ticks[t].now))
                   => schedules'[j].status = "POSTED"
            /\ (ticks' = ticks /\ Len(schedules') = Len(schedules)
                  /\ schedules' /= schedules
                  /\ dueAmended(schedules'[j].whenISO, clock))
                 => schedules'[j].status = "POSTED"
     /\ \A j \in 1..Len(schedules) :
          (schedules[j].platforms = << >> /\ schedules[j].status = "QUEUED"
             /\ schedules'[j].status = "POSTED")
            => /\ schedules'[j].postedAt = clock
               /\ schedules'[j].trail = << "QUEUED", "POSTING", "POSTED" >>]_vars
\* An invocation posted a job with no platforms, at the time of the job's
\* timestamp and without a call, and is suspended on the job after it.
C21_Witness ==
  \E t \in 1..MaxTicks :
    /\ ticks[t].pc = "await"
    /\ ticks[t].i = 2
    /\ schedules[1].platforms = << >>
    /\ schedules[1].whenISO = IsoWhen(1)
    /\ schedules[1].status = "POSTED"
    /\ schedules[1].postedAt = 1
    /\ schedules[1].calls = << >>

====
